---- MODULE Spec2Model ----
(***************************************************************************)
(* Model of package shared (acceptance/shared/shared.go): the acceptance   *)
(* test helpers MustHaveValidContainerLogDir, CreatePGPool and             *)
(* TerminateContainer, run by one test goroutine of the testing framework. *)
(* Strings are sequences of one-character strings; a Go error is its       *)
(* message together with its Unwrap chain.                                 *)
(***************************************************************************)
EXTENDS Integers, Sequences, FiniteSets, TLC

VARIABLES
    proc,          \* the test process: "startup", "running" or "exited" (os.Exit)
    configLogDir,  \* the harness's configured container log directory
    tstate,        \* the test: "running", "returned", "halted" (Goexit), "done"
    failed,        \* t.Failed()
    pc,            \* position of the test goroutine inside a helper call
    lastOp,        \* the helper entered last
    calls,         \* helper calls entered so far
    cName,         \* TerminateContainer: containerName
    cLogDir,       \* TerminateContainer: logDir
    cKill,         \* TerminateContainer: kill
    logOutput,     \* writeLogs: logOutput
    effects,       \* the commands run and files written by the current call
    fs,            \* the filesystem: path -> content
    pools,         \* the pgxpool.Pool objects constructed so far
    cleanups,      \* functions registered with t.Cleanup, in order
    curPool,       \* CreatePGPool: pool
    ret,           \* what the last CreatePGPool call returned
    cause,         \* the error pgxpool handed to the last CreatePGPool call
    pinged,        \* whether the last CreatePGPool call called pool.Ping
    parent,        \* the caller's context
    elapsed,       \* ticks since context.WithTimeout in the current call
    childCancelled \* whether cancel() of the derived context has run

vars == <<proc, configLogDir, tstate, failed, pc, lastOp, calls, cName, cLogDir,
          cKill, logOutput, effects, fs, pools, cleanups, curPool, ret,
          cause, pinged, parent, elapsed, childCancelled>>

termVars == <<cName, cLogDir, cKill, logOutput, effects, fs>>
poolVars == <<pools, cleanups, curPool, ret, cause, pinged, parent, elapsed,
              childCancelled>>

----------------------------------------------------------------------------
(* Bounds *)

\* helper calls one test makes
MaxCalls == 3
\* resolution of the clock: ticks in one second
TicksPerSecond == 2

----------------------------------------------------------------------------
(* Strings and paths *)

Sep == "/"

\* container log directories: unset, relative, the root, absolute, with a
\* trailing separator
LogDirs == { <<>>, <<"d">>, <<".", ".">>, <<"/">>, <<"/", "d">>, <<"/", "d", "/">> }

\* container names: none, a plain name, names with path syntax
Names == { <<>>, <<"c">>, <<".", ".", "/", "c">> }

\* combined output of "docker logs"
Outputs == { <<"l", "1">>, <<"l", "2">> }

DotLog == <<".", "l", "o", "g">>

\* filepath.IsAbs on unix: strings.HasPrefix(path, "/")
IsAbs(path) == Len(path) > 0 /\ path[1] = Sep

\* the ".." case of filepath.Clean: with w elements of buf kept, drop down to
\* the last separator, not below dotdot
RECURSIVE Backtrack(_, _, _)
Backtrack(buf, w, dotdot) ==
    IF w > dotdot /\ buf[w + 1] # Sep
    THEN Backtrack(buf, w - 1, dotdot)
    ELSE SubSeq(buf, 1, w)

\* the copy loop of filepath.Clean: append path[r..] up to the next separator
RECURSIVE CopyElem(_, _, _)
CopyElem(path, r, out) ==
    IF r <= Len(path) /\ path[r] # Sep
    THEN CopyElem(path, r + 1, Append(out, path[r]))
    ELSE <<r, out>>

\* the main loop of filepath.Clean; r is the 1-based read index
RECURSIVE CleanLoop(_, _, _, _, _)
CleanLoop(path, rooted, r, out, dotdot) ==
    LET n == Len(path) IN
    IF r > n THEN out
    ELSE IF path[r] = Sep
         THEN CleanLoop(path, rooted, r + 1, out, dotdot)
    ELSE IF path[r] = "." /\ (r = n \/ path[r + 1] = Sep)
         THEN CleanLoop(path, rooted, r + 1, out, dotdot)
    ELSE IF path[r] = "." /\ path[r + 1] = "." /\ (r + 1 = n \/ path[r + 2] = Sep)
         THEN IF Len(out) > dotdot
              THEN CleanLoop(path, rooted, r + 2,
                             Backtrack(out, Len(out) - 1, dotdot), dotdot)
              ELSE IF ~rooted
              THEN LET o == (IF Len(out) > 0 THEN Append(out, Sep) ELSE out)
                            \o <<".", ".">>
                   IN  CleanLoop(path, rooted, r + 2, o, Len(o))
              ELSE CleanLoop(path, rooted, r + 2, out, dotdot)
    ELSE LET o == IF (rooted /\ Len(out) # 1) \/ (~rooted /\ Len(out) # 0)
                  THEN Append(out, Sep) ELSE out
             c == CopyElem(path, r, o)
         IN  CleanLoop(path, rooted, c[1], c[2], dotdot)

\* filepath.Clean on unix
Clean(path) ==
    IF path = <<>> THEN <<".">>
    ELSE LET rooted == path[1] = Sep
             out == IF rooted THEN CleanLoop(path, TRUE, 2, <<Sep>>, 1)
                    ELSE CleanLoop(path, FALSE, 1, <<>>, 0)
         IN  IF out = <<>> THEN <<".">> ELSE out

\* filepath.Join of two elements: empty elements are ignored, the rest are
\* joined with the separator and cleaned
Join(dir, file) ==
    IF dir = <<>> /\ file = <<>> THEN <<>>
    ELSE IF dir = <<>> THEN Clean(file)
    ELSE IF file = <<>> THEN Clean(dir)
    ELSE Clean(dir \o <<Sep>> \o file)

\* faulty variant: the directory is left out of the path
LogPathInCwd(logDir, containerName) == Join(<<>>, containerName \o DotLog)

\* filepath.Join(logDir, fmt.Sprintf("%s.log", containerName))
LogPath(logDir, containerName) == Join(logDir, containerName \o DotLog)

----------------------------------------------------------------------------
(* Errors *)

NoErr == [msg |-> <<>>, chain |-> <<>>]

\* errors.New("pgxpool did not connect")
ErrPgPoolConnect == [msg |-> <<"pgxpool did not connect">>,
                     chain |-> <<"shared.ErrPgPoolConnect">>]

\* what pgxpool.New can fail with
ConstructCauses ==
    { [msg |-> <<"cannot parse connection string">>,
       chain |-> <<"pgconn.ParseConfigError">>],
      [msg |-> <<"invalid port">>,
       chain |-> <<"pgconn.ParseConfigError", "strconv.NumError">>] }

\* what pool.Ping can fail with while its context is live
PingCauses ==
    { [msg |-> <<"connection refused">>,
       chain |-> <<"pgconn.ConnectError", "syscall.ECONNREFUSED">>],
      [msg |-> <<"password authentication failed">>,
       chain |-> <<"pgconn.PgError">>] }

DeadlineExceeded == [msg |-> <<"context deadline exceeded">>,
                     chain |-> <<"context.DeadlineExceeded">>]
Canceled == [msg |-> <<"context canceled">>, chain |-> <<"context.Canceled">>]

Verbs == {"%w", "%s"}

\* the message fmt.Errorf builds: each verb prints its operand's Error()
RECURSIVE Render(_, _)
Render(format, args) ==
    IF format = <<>> THEN <<>>
    ELSE IF Head(format) \in Verbs
         THEN Head(args).msg \o Render(Tail(format), Tail(args))
         ELSE <<Head(format)>> \o Render(Tail(format), args)

\* the operand of the %w verb of a format, NoErr when it has none
RECURSIVE WrappedOperand(_, _)
WrappedOperand(format, args) ==
    IF format = <<>> THEN NoErr
    ELSE IF Head(format) = "%w" THEN Head(args)
    ELSE IF Head(format) = "%s" THEN WrappedOperand(Tail(format), Tail(args))
    ELSE WrappedOperand(Tail(format), args)

\* fmt.Errorf: a *fmt.wrapError whose Unwrap is the %w operand, or an
\* error without Unwrap when the format has no %w
Errorf(format, args) ==
    LET w == WrappedOperand(format, args) IN
    [msg |-> Render(format, args),
     chain |-> IF w = NoErr THEN <<"fmt.errorString">>
               ELSE <<"fmt.wrapError">> \o w.chain]

\* errors.Is(err, target) for a comparable target without an Is method
Is(err, target) == \E i \in 1..Len(err.chain) : err.chain[i] = target.chain[1]

----------------------------------------------------------------------------
(* Contexts *)

\* time.Second, in ticks
Second == TicksPerSecond

\* the clock of a call stops here
MaxElapsed == Second + 2

\* context.Background(): no deadline (ctx.Deadline() returns ok = false)
Background == [hasDeadline |-> FALSE, deadline |-> 0, cancelled |-> FALSE]

\* the contexts a caller may pass: with or without a deadline (in ticks from
\* the call), cancelled already or not
Contexts ==
    { [hasDeadline |-> TRUE, deadline |-> d, cancelled |-> c] :
        d \in 0 .. (Second + 1), c \in BOOLEAN }
    \cup { [Background EXCEPT !.cancelled = c] : c \in BOOLEAN }

\* faulty variant: the ping runs under the caller's context
WithTimeoutIgnored(ctx, timeout) == ctx

\* context.WithTimeout(ctx, timeout): the derived context's deadline is the
\* parent's when that is earlier, and the parent's cancellation reaches it
WithTimeout(ctx, timeout) ==
    IF ctx.hasDeadline /\ ctx.deadline <= timeout
    THEN ctx
    ELSE [hasDeadline |-> TRUE, deadline |-> timeout, cancelled |-> ctx.cancelled]

\* ctx, cancel := context.WithTimeout(ctx, time.Second)
Child == WithTimeout(parent, Second)

\* ctx.Done() of the derived context is closed
ChildDone ==
    \/ childCancelled
    \/ Child.cancelled
    \/ Child.hasDeadline /\ elapsed >= Child.deadline

----------------------------------------------------------------------------
(* The test process and the test *)

Nil == 0
NoRet == [pool |-> Nil, err |-> NoErr, returned |-> FALSE]
NoFiles == [p \in {} |-> <<>>]

InitCommon ==
    /\ tstate = "running"
    /\ failed = FALSE
    /\ pc = "idle"
    /\ lastOp = "none"
    /\ calls = 0
    /\ cName = <<>>
    /\ cLogDir = <<>>
    /\ cKill = FALSE
    /\ logOutput = <<>>
    /\ effects = <<>>
    /\ fs = NoFiles
    /\ pools = <<>>
    /\ cleanups = <<>>
    /\ curPool = Nil
    /\ ret = NoRet
    /\ cause = NoErr
    /\ pinged = FALSE
    /\ parent = Background
    /\ elapsed = 0
    /\ childCancelled = FALSE

\* the helpers called directly, with any arguments
Init ==
    /\ proc = "running"
    /\ configLogDir = <<>>
    /\ InitCommon

\* the test goroutine is between two helper calls and may make another
CanCall ==
    /\ proc = "running"
    /\ tstate = "running"
    /\ pc = "idle"
    /\ calls < MaxCalls

Enter(op) ==
    /\ lastOp' = op
    /\ calls' = calls + 1

\* the parameters and locals of an earlier TerminateContainer call are gone
NoTermLocals ==
    /\ cName' = <<>>
    /\ cLogDir' = <<>>
    /\ cKill' = FALSE
    /\ logOutput' = <<>>
    /\ effects' = <<>>

\* the parameters, locals and results of an earlier CreatePGPool call are gone
NoPoolLocals ==
    /\ curPool' = Nil
    /\ ret' = NoRet
    /\ cause' = NoErr
    /\ pinged' = FALSE
    /\ parent' = Background
    /\ elapsed' = 0
    /\ childCancelled' = FALSE

\* faulty variant: t.Errorf, which marks the test failed and goes on
FatalfAsErrorf(next) ==
    /\ failed' = TRUE
    /\ pc' = next
    /\ UNCHANGED tstate

\* t.Fatalf: the test is marked failed and its goroutine exits
\* (runtime.Goexit); next is where the caller would have gone on
Fatalf(next) ==
    /\ failed' = TRUE
    /\ tstate' = "halted"
    /\ pc' = "goexit"

----------------------------------------------------------------------------
(* MustHaveValidContainerLogDir *)

\* faulty variant: the test of filepath.IsAbs is not negated
MustHaveValidInverted(logDir) ==
    IF logDir # <<>> /\ IsAbs(logDir)
    THEN proc' = "exited"
    ELSE proc' = "running"

\* log.Fatalf exits the process
MustHaveValidContainerLogDir(logDir) ==
    IF logDir # <<>> /\ ~IsAbs(logDir)
    THEN proc' = "exited"
    ELSE proc' = "running"

CallMustHaveValidContainerLogDir ==
    /\ CanCall
    /\ \E logDir \in LogDirs : MustHaveValidContainerLogDir(logDir)
    /\ Enter("MustHaveValidContainerLogDir")
    /\ NoTermLocals
    /\ NoPoolLocals
    /\ UNCHANGED <<configLogDir, tstate, failed, pc, fs, pools, cleanups>>

----------------------------------------------------------------------------
(* TerminateContainer *)

LogsCmd(containerName) == <<"docker", "logs", containerName>>

TermCmd(kill, containerName) ==
    IF kill
    THEN <<"docker", "kill", containerName>>
    ELSE <<"docker", "stop", "--time", "30", containerName>>

\* cmd.CombinedOutput() of exec.CommandContext(ctx, argv...)
Exec(argv, output, ok) ==
    [kind |-> "exec", argv |-> argv, output |-> output, ok |-> ok]

\* a call of os.WriteFile
Written(name, data, ok) ==
    [kind |-> "write", name |-> name, data |-> data, ok |-> ok]

\* os.WriteFile(name, data, 0644): the file is created or truncated
WriteFile(name, data) ==
    [p \in (DOMAIN fs) \cup {name} |-> IF p = name THEN data ELSE fs[p]]

\* faulty variant: the termination command is run before writeLogs
FlowTerminateFirst(at) ==
    IF at = "entry" THEN "terminate"
    ELSE IF at = "terminated" THEN "writeLogs"
    ELSE "idle"

\* the order of the steps of TerminateContainer: writeLogs is called first,
\* the termination command is run after it, and then the call returns
Flow(at) ==
    IF at = "entry" THEN "writeLogs"
    ELSE IF at = "logged" THEN "terminate"
    ELSE "idle"

\* faulty variant: no early return on an empty name
AfterNameCheckNoReturn(containerName) == Flow("entry")

\* where TerminateContainer goes after its first check
AfterNameCheck(containerName) ==
    IF containerName = <<>> THEN "idle" ELSE Flow("entry")

\* entry of TerminateContainer, up to the call of writeLogs
TerminateContainer(containerName, logDir, kill) ==
    /\ CanCall
    /\ Enter("TerminateContainer")
    /\ cName' = containerName
    /\ cLogDir' = logDir
    /\ cKill' = kill
    /\ logOutput' = <<>>
    /\ effects' = <<>>
    /\ pc' = AfterNameCheck(containerName)
    /\ NoPoolLocals
    /\ UNCHANGED <<proc, configLogDir, tstate, failed, fs, pools, cleanups>>

CallTerminateContainer ==
    \E containerName \in Names, logDir \in LogDirs, kill \in BOOLEAN :
        TerminateContainer(containerName, logDir, kill)

\* writeLogs, up to the result of "docker logs"
WriteLogsFetch ==
    /\ proc = "running"
    /\ pc = "writeLogs"
    /\ IF cLogDir = <<>>
       THEN /\ pc' = Flow("logged")
            /\ UNCHANGED <<tstate, failed, logOutput, effects>>
       ELSE \E output \in Outputs, ok \in BOOLEAN :
                /\ effects' = Append(effects, Exec(LogsCmd(cName), output, ok))
                /\ logOutput' = output
                /\ IF ok
                   THEN pc' = "writeFile" /\ UNCHANGED <<tstate, failed>>
                   ELSE Fatalf("writeFile")
    /\ UNCHANGED <<proc, configLogDir, lastOp, calls, cName, cLogDir, cKill, fs>>
    /\ UNCHANGED poolVars

\* writeLogs, the os.WriteFile call and its result
WriteLogsFile ==
    /\ proc = "running"
    /\ pc = "writeFile"
    /\ \E ok \in BOOLEAN :
        /\ effects' = Append(effects,
                             Written(LogPath(cLogDir, cName), logOutput, ok))
        /\ IF ok
           THEN /\ fs' = WriteFile(LogPath(cLogDir, cName), logOutput)
                /\ pc' = Flow("logged")
                /\ UNCHANGED <<tstate, failed>>
           ELSE /\ Fatalf(Flow("logged"))
                /\ UNCHANGED fs
    /\ UNCHANGED <<proc, configLogDir, lastOp, calls, cName, cLogDir, cKill,
                   logOutput>>
    /\ UNCHANGED poolVars

\* the termination command and its result
Terminate ==
    /\ proc = "running"
    /\ pc = "terminate"
    /\ \E ok \in BOOLEAN :
        /\ effects' = Append(effects, Exec(TermCmd(cKill, cName), <<>>, ok))
        /\ IF ok
           THEN pc' = Flow("terminated") /\ UNCHANGED <<tstate, failed>>
           ELSE Fatalf(Flow("terminated"))
    /\ UNCHANGED <<proc, configLogDir, lastOp, calls, cName, cLogDir, cKill,
                   logOutput, fs>>
    /\ UNCHANGED poolVars

----------------------------------------------------------------------------
(* CreatePGPool *)

NewPool == [pinged |-> FALSE, closed |-> 0]

\* faulty variant: the construction error is reported as ErrPgPoolConnect
ConstructErrorAsConnect(err) ==
    [pool |-> Nil, returned |-> TRUE,
     err |-> Errorf(<<"%w", ": ", "%s">>, <<ErrPgPoolConnect, err>>)]

\* return nil, fmt.Errorf("failed to construct new pool: %w", err)
ConstructError(err) ==
    [pool |-> Nil, returned |-> TRUE,
     err |-> Errorf(<<"failed to construct new pool: ", "%w">>, <<err>>)]

\* faulty variant: the pool is returned together with the error
PingErrorWithPool(pool, err) ==
    [pool |-> pool, returned |-> TRUE,
     err |-> Errorf(<<"%w", ": ", "%s">>, <<ErrPgPoolConnect, err>>)]

\* faulty variant: the verbs are swapped, so the ping error is the one wrapped
PingErrorWrapsCause(pool, err) ==
    [pool |-> Nil, returned |-> TRUE,
     err |-> Errorf(<<"%s", ": ", "%w">>, <<ErrPgPoolConnect, err>>)]

\* return nil, fmt.Errorf("%w: %s", ErrPgPoolConnect, err)
PingError(pool, err) ==
    [pool |-> Nil, returned |-> TRUE,
     err |-> Errorf(<<"%w", ": ", "%s">>, <<ErrPgPoolConnect, err>>)]

\* faulty variant: the cleanup is not registered
RegisterCleanupNever(pool) == cleanups' = cleanups

\* t.Cleanup(func() { pool.Close() }) after a ping that succeeded
RegisterCleanup(pool) == cleanups' = Append(cleanups, pool)

\* defer cancel(), run on return
DeferCancel == childCancelled' = TRUE

\* entry of CreatePGPool, up to the result of pgxpool.New; ctx is the caller's
\* context and newErr what pgxpool.New fails with (NoErr when it succeeds)
CreatePGPool(ctx, newErr) ==
    /\ CanCall
    /\ Enter("CreatePGPool")
    /\ parent' = ctx
    /\ elapsed' = 0
    /\ pinged' = FALSE
    /\ cause' = newErr
    /\ IF newErr # NoErr
       THEN /\ ret' = ConstructError(newErr)
            /\ DeferCancel
            /\ pc' = "idle"
            /\ curPool' = Nil
            /\ UNCHANGED pools
       ELSE /\ pools' = Append(pools, NewPool)
            /\ curPool' = Len(pools) + 1
            /\ ret' = NoRet
            /\ childCancelled' = FALSE
            /\ pc' = "ping"
    /\ NoTermLocals
    /\ UNCHANGED <<proc, configLogDir, tstate, failed, cleanups, fs>>

CallCreatePGPool ==
    \E ctx \in Contexts, newErr \in ConstructCauses \cup {NoErr} :
        CreatePGPool(ctx, newErr)

\* CreatePGPool from the result of pool.Ping(ctx) to the return
AfterPing(pingErr) ==
    /\ pinged' = TRUE
    /\ cause' = pingErr
    /\ IF pingErr # NoErr
       THEN /\ ret' = PingError(curPool, pingErr)
            /\ UNCHANGED <<pools, cleanups>>
       ELSE /\ pools' = [pools EXCEPT ![curPool].pinged = TRUE]
            /\ RegisterCleanup(curPool)
            /\ ret' = [pool |-> curPool, err |-> NoErr, returned |-> TRUE]
    /\ DeferCancel
    /\ pc' = "idle"

PingFrame ==
    /\ UNCHANGED <<proc, configLogDir, tstate, failed, lastOp, calls, curPool,
                   parent, elapsed>>
    /\ UNCHANGED termVars

\* the database answers the ping before the context is done
PingSucceeds ==
    /\ proc = "running"
    /\ pc = "ping"
    /\ ~ChildDone
    /\ AfterPing(NoErr)
    /\ PingFrame

\* the connection attempt fails before the context is done
PingFails ==
    /\ proc = "running"
    /\ pc = "ping"
    /\ ~ChildDone
    /\ \E err \in PingCauses : AfterPing(err)
    /\ PingFrame

\* the context is done: the ping is abandoned with the context's error
PingAbandoned ==
    /\ proc = "running"
    /\ pc = "ping"
    /\ ChildDone
    /\ AfterPing(IF parent.cancelled THEN Canceled ELSE DeadlineExceeded)
    /\ PingFrame

\* time passes while the ping is pending
Tick ==
    /\ proc = "running"
    /\ pc = "ping"
    /\ ~ChildDone
    /\ elapsed < MaxElapsed
    /\ elapsed' = elapsed + 1
    /\ UNCHANGED <<proc, configLogDir, tstate, failed, pc, lastOp, calls,
                   pools, cleanups, curPool, ret, cause, pinged, parent,
                   childCancelled>>
    /\ UNCHANGED termVars

\* the caller's context is cancelled while the ping is pending
CancelParent ==
    /\ proc = "running"
    /\ pc = "ping"
    /\ ~parent.cancelled
    /\ parent' = [parent EXCEPT !.cancelled = TRUE]
    /\ UNCHANGED <<proc, configLogDir, tstate, failed, pc, lastOp, calls,
                   pools, cleanups, curPool, ret, cause, pinged, elapsed,
                   childCancelled>>
    /\ UNCHANGED termVars

----------------------------------------------------------------------------
(* The end of the test *)

\* the test function returns
TestReturns ==
    /\ proc = "running"
    /\ tstate = "running"
    /\ pc = "idle"
    /\ tstate' = "returned"
    /\ UNCHANGED <<proc, configLogDir, failed, pc, lastOp, calls>>
    /\ UNCHANGED termVars
    /\ UNCHANGED poolVars

\* how many times pool occurs in a list of registered cleanups
RECURSIVE Registered(_, _)
Registered(list, pool) ==
    IF list = <<>> THEN 0
    ELSE (IF Head(list) = pool THEN 1 ELSE 0) + Registered(Tail(list), pool)

\* the testing framework runs the registered cleanups once the test function
\* has returned or its goroutine has exited: each closes its pool
RunCleanups ==
    /\ proc = "running"
    /\ tstate \in {"returned", "halted"}
    /\ pools' = [i \in DOMAIN pools |->
                    [pools[i] EXCEPT !.closed = @ + Registered(cleanups, i)]]
    /\ cleanups' = <<>>
    /\ tstate' = "done"
    /\ UNCHANGED <<proc, configLogDir, failed, pc, lastOp, calls, curPool, ret,
                   cause, pinged, parent, elapsed, childCancelled>>
    /\ UNCHANGED termVars

----------------------------------------------------------------------------
(* Specifications *)

Next ==
    \/ CallMustHaveValidContainerLogDir
    \/ CallTerminateContainer
    \/ WriteLogsFetch
    \/ WriteLogsFile
    \/ Terminate
    \/ CallCreatePGPool
    \/ PingSucceeds
    \/ PingFails
    \/ PingAbandoned
    \/ Tick
    \/ CancelParent
    \/ TestReturns
    \/ RunCleanups

Spec == Init /\ [][Next]_vars

\* time passes, and a ping whose context is done returns
FairSpec == Spec /\ WF_vars(Tick) /\ WF_vars(PingAbandoned)

\* the harness: the configured log directory is validated once at startup and
\* is the one every TerminateContainer call is given
HarnessInit ==
    /\ proc = "startup"
    /\ configLogDir \in LogDirs
    /\ InitCommon

HarnessStartup ==
    /\ proc = "startup"
    /\ MustHaveValidContainerLogDir(configLogDir)
    /\ UNCHANGED <<configLogDir, tstate, failed, pc, lastOp, calls>>
    /\ UNCHANGED termVars
    /\ UNCHANGED poolVars

HarnessTerminateContainer ==
    \E containerName \in Names, kill \in BOOLEAN :
        TerminateContainer(containerName, configLogDir, kill)

HarnessNext ==
    \/ HarnessStartup
    \/ HarnessTerminateContainer
    \/ WriteLogsFetch
    \/ WriteLogsFile
    \/ Terminate
    \/ CallCreatePGPool
    \/ PingSucceeds
    \/ PingFails
    \/ PingAbandoned
    \/ Tick
    \/ CancelParent
    \/ TestReturns
    \/ RunCleanups

HarnessSpec == HarnessInit /\ [][HarnessNext]_vars

----------------------------------------------------------------------------
(* Vocabulary of the properties *)

\* what a step of TerminateContainer did: "logs", "write" or "term"
StepOf(e) ==
    IF e.kind = "write" THEN "write"
    ELSE IF e.argv[2] = "logs" THEN "logs"
    ELSE "term"

Steps == [i \in 1..Len(effects) |-> StepOf(effects[i])]

IsPrefix(s, t) == Len(s) <= Len(t) /\ s = SubSeq(t, 1, Len(s))

InTerminate == lastOp = "TerminateContainer"
InCreate == lastOp = "CreatePGPool"

\* the call entered last has returned to the test function
ReturnedNormally == pc = "idle"

Relative(dir) == dir # <<>> /\ dir[1] # "/"

\* the elements of a path, split at the separators
RECURSIVE Elements(_, _)
Elements(path, cur) ==
    IF path = <<>> THEN <<cur>>
    ELSE IF Head(path) = "/" THEN <<cur>> \o Elements(Tail(path), <<>>)
    ELSE Elements(Tail(path), Append(cur, Head(path)))

\* the directory entry a walk over the elements ends at, from the stack of
\* directories it starts in
RECURSIVE Walk(_, _)
Walk(elems, stack) ==
    IF elems = <<>> THEN stack
    ELSE IF Head(elems) \in { <<>>, <<".">> } THEN Walk(Tail(elems), stack)
    ELSE IF Head(elems) = <<".", ".">>
         THEN Walk(Tail(elems),
                   IF stack = <<>> THEN <<>> ELSE SubSeq(stack, 1, Len(stack) - 1))
    ELSE Walk(Tail(elems), Append(stack, Head(elems)))

\* the file a path names for a process whose working directory is /w/v
Denotes(path) ==
    Walk(Elements(path, <<>>),
         IF path # <<>> /\ path[1] = "/" THEN <<>> ELSE << <<"w">>, <<"v">> >>)

\* s occurs in t as a run of consecutive elements
Occurs(s, t) ==
    \E i \in 0..(Len(t) - Len(s)) : SubSeq(t, i + 1, i + Len(s)) = s

----------------------------------------------------------------------------
(* Properties *)

\* C1: in a TerminateContainer call with a container name and a log directory,
\* the steps taken are always an initial part of: docker logs, the write of
\* the log file, the termination command. No termination command comes before
\* or between the two steps of log capture and no step happens twice.
C1_LogsBeforeTermination ==
    (InTerminate /\ cName # <<>> /\ cLogDir # <<>>)
        => IsPrefix(Steps, <<"logs", "write", "term">>)

C1_Witness ==
    /\ InTerminate
    /\ cName # <<>>
    /\ cLogDir # <<>>
    /\ Steps = <<"logs", "write", "term">>

\* C2: a TerminateContainer call with an empty container name returns at once,
\* whatever logDir and kill are: the entering step leaves the test goroutine
\* idle, runs no command, writes no file, and changes neither the filesystem
\* nor the test's failed mark nor the test's or the process's state; and no
\* effect is ever recorded for such a call.
C2_EmptyNameIsNoOp ==
    /\ []((InTerminate /\ cName = <<>>) => (effects = <<>> /\ pc = "idle"))
    /\ [][(lastOp' = "TerminateContainer" /\ calls' = calls + 1 /\ cName' = <<>>)
            => /\ pc' = "idle"
               /\ effects' = <<>>
               /\ fs' = fs
               /\ failed' = failed
               /\ tstate' = tstate
               /\ proc' = proc
               /\ pools' = pools
               /\ cleanups' = cleanups]_vars

C2_Witness ==
    /\ InTerminate
    /\ cName = <<>>
    /\ cLogDir # <<>>
    /\ cKill
    /\ pc = "idle"
    /\ fs # NoFiles

\* C3: whenever CreatePGPool has returned, either it returned a pool with a nil
\* error and the ping on that pool succeeded, or it returned a nil pool with a
\* non-nil error.
C3_NoUnverifiedHandle ==
    ret.returned =>
        \/ /\ ret.pool # Nil
           /\ ret.err = NoErr
           /\ pinged
           /\ pools[ret.pool].pinged
        \/ /\ ret.pool = Nil
           /\ ret.err # NoErr

C3_Witness ==
    /\ ret.returned
    /\ ret.pool # Nil
    /\ pools[ret.pool].pinged

\* C4: an error returned after a failed ping is ErrPgPoolConnect for errors.Is;
\* an error returned after a failed construction is not, and that call made no
\* ping. Every returned error is of exactly one of the two kinds.
C4_FailureModesDistinct ==
    (ret.returned /\ ret.err # NoErr) =>
        IF cause \in ConstructCauses
        THEN ~Is(ret.err, ErrPgPoolConnect) /\ ~pinged
        ELSE Is(ret.err, ErrPgPoolConnect) /\ pinged

C4_Witness ==
    /\ ret.returned
    /\ cause \in ConstructCauses
    /\ ~pinged
    /\ ~Is(ret.err, ErrPgPoolConnect)

\* C5: in TerminateContainer a step that fails is the last step of the call:
\* the test is marked failed and its goroutine has exited, so a failed log
\* fetch is followed by no write and no termination command and a failed write
\* by no termination command. No step is taken twice, the test is marked
\* failed exactly when a step failed, and the call returns only when every
\* step it took succeeded.
C5_FailureIsFatal ==
    InTerminate =>
        /\ \A i \in 1..Len(effects) :
              ~effects[i].ok =>
                  /\ i = Len(effects)
                  /\ failed
                  /\ pc = "goexit"
                  /\ tstate \in {"halted", "done"}
        /\ \A i, j \in 1..Len(effects) : i # j => Steps[i] # Steps[j]
        /\ failed <=> (\E i \in 1..Len(effects) : ~effects[i].ok)
        /\ ReturnedNormally =>
              (~failed /\ \A i \in 1..Len(effects) : effects[i].ok)

C5_Witness ==
    /\ InTerminate
    /\ Steps = <<"logs", "write">>
    /\ effects[1].ok
    /\ ~effects[2].ok
    /\ failed
    /\ pc = "goexit"

\* C6: once the harness has validated its log directory, the process has
\* exited exactly when the directory is non-empty and relative; a process that
\* exited there has made no helper call, run no command, built no pool and
\* written no file; and no step of log capture ever runs with a non-empty
\* relative log directory.
C6_RelativeLogDirAborts ==
    /\ proc # "startup" => (proc = "exited" <=> Relative(configLogDir))
    /\ proc = "exited" =>
          (calls = 0 /\ effects = <<>> /\ pools = <<>> /\ fs = NoFiles)
    /\ (calls > 0 \/ pools # <<>> \/ fs # NoFiles) => proc = "running"
    /\ \A i \in 1..Len(effects) :
          Steps[i] \in {"logs", "write"} => ~Relative(cLogDir)

C6_Witness ==
    /\ proc = "exited"
    /\ Relative(configLogDir)
    /\ calls = 0

\* C7: a pool has exactly one cleanup registered if CreatePGPool returned it
\* (its ping succeeded) and none otherwise; no pool is closed before the test
\* ends; when the test has ended, passed or failed, a returned pool has been
\* closed exactly once and a pool whose ping failed has never been closed.
C7_OneCleanupPerHandle ==
    /\ \A i \in DOMAIN pools :
          LET handle == IF pools[i].pinged THEN 1 ELSE 0 IN
          IF tstate = "done"
          THEN pools[i].closed = handle /\ cleanups = <<>>
          ELSE pools[i].closed = 0 /\ Registered(cleanups, i) = handle
    /\ (InCreate /\ ret.returned /\ tstate # "done") =>
          IF ret.pool # Nil
          THEN Registered(cleanups, ret.pool) = 1
          ELSE curPool # Nil => Registered(cleanups, curPool) = 0

C7_Witness ==
    /\ tstate = "done"
    /\ failed
    /\ \E i \in DOMAIN pools : pools[i].pinged /\ pools[i].closed = 1
    /\ \E i \in DOMAIN pools : ~pools[i].pinged /\ pools[i].closed = 0

\* C8: a pending ping never outlasts one second, nor the caller's deadline, and
\* no time passes on it once the caller's context is cancelled; a ping
\* abandoned with the context's error makes the call return a nil pool and an
\* error that is ErrPgPoolConnect; the derived context is cancelled whenever
\* the call has returned; and every call that starts a ping returns.
C8_ProbeIsBounded ==
    /\ [](pc = "ping" =>
            /\ elapsed <= Second
            /\ parent.hasDeadline => elapsed <= parent.deadline)
    /\ [][(pc = "ping" /\ parent.cancelled) => elapsed' = elapsed]_vars
    /\ []((ret.returned /\ cause \in {DeadlineExceeded, Canceled}) =>
            (ret.pool = Nil /\ Is(ret.err, ErrPgPoolConnect)))
    /\ []((InCreate /\ pc = "idle") => (ret.returned /\ childCancelled))
    /\ (pc = "ping") ~> (pc = "idle" /\ ret.returned)

C8_Witness ==
    /\ InCreate
    /\ ret.returned
    /\ ~parent.hasDeadline
    /\ ~parent.cancelled
    /\ elapsed = Second
    /\ cause = DeadlineExceeded
    /\ Is(ret.err, ErrPgPoolConnect)

\* C9 as stated: the error pgxpool gave is in the wrap chain of every error
\* CreatePGPool returns.
C9_CauseInWrapChain ==
    (ret.returned /\ ret.err # NoErr) => Is(ret.err, cause)

\* C9, amended: every error CreatePGPool returns carries the text of the
\* error pgxpool gave. After a failed construction that error is in the wrap
\* chain; after a failed ping the wrap chain holds ErrPgPoolConnect and not
\* the error pgxpool gave, which is attached as text only.
C9_CauseAttached ==
    (ret.returned /\ ret.err # NoErr) =>
        /\ cause # NoErr
        /\ Occurs(cause.msg, ret.err.msg)
        /\ IF pinged
           THEN Is(ret.err, ErrPgPoolConnect) /\ ~Is(ret.err, cause)
           ELSE Is(ret.err, cause)

C9_Witness ==
    /\ ret.returned
    /\ pinged
    /\ cause \in PingCauses
    /\ Is(ret.err, ErrPgPoolConnect)
    /\ ~Is(ret.err, cause)

\* the log file of the current TerminateContainer call, spelled literally
SpelledLogPath == cLogDir \o <<"/">> \o cName \o <<".", "l", "o", "g">>

\* C10: a TerminateContainer call with a container name that returned has,
\* with a log directory, run "docker logs <name>" once, then written that
\* command's output once to the file <logDir>/<name>.log (spelled so literally
\* when logDir is a clean directory other than the root and the name has no
\* path syntax), which then holds exactly that output, then run one
\* termination command: "docker kill <name>" when kill is set, else
\* "docker stop --time 30 <name>". Without a log directory it has run the
\* termination command only. The write changes no other file.
C10_ExactSideEffects ==
    /\ []((InTerminate /\ cName # <<>> /\ ReturnedNormally) =>
            LET n == Len(effects)
                term == IF cKill
                        THEN <<"docker", "kill", cName>>
                        ELSE <<"docker", "stop", "--time", "30", cName>>
            IN  /\ n = (IF cLogDir = <<>> THEN 1 ELSE 3)
                /\ effects[n].kind = "exec"
                /\ effects[n].argv = term
                /\ effects[n].ok
                /\ cLogDir # <<>> =>
                      /\ effects[1].kind = "exec"
                      /\ effects[1].argv = <<"docker", "logs", cName>>
                      /\ effects[1].ok
                      /\ effects[2].kind = "write"
                      /\ effects[2].ok
                      /\ effects[2].data = effects[1].output
                      /\ Denotes(effects[2].name) = Denotes(SpelledLogPath)
                      /\ (cLogDir \in { <<"d">>, <<"/", "d">> } /\ cName = <<"c">>)
                            => effects[2].name = SpelledLogPath
                      /\ effects[2].name \in DOMAIN fs
                      /\ fs[effects[2].name] = effects[1].output)
    /\ [][fs' # fs =>
            /\ pc = "writeFile"
            /\ DOMAIN fs' = (DOMAIN fs) \cup {effects'[2].name}
            /\ \A p \in DOMAIN fs : p # effects'[2].name => fs'[p] = fs[p]]_vars

C10_Witness ==
    /\ InTerminate
    /\ ReturnedNormally
    /\ cName = <<"c">>
    /\ cLogDir = <<"/", "d">>
    /\ ~cKill
    /\ Len(effects) = 3
    /\ calls = 2
    /\ fs[<<"/", "d", "/", "c", ".", "l", "o", "g">>] = <<"l", "2">>

====
